---- MODULE Spec2Model ----
(***************************************************************************)
(* Model of examples/external-processing/main.py: a FastAPI application    *)
(* that resolves one function of the math module from the environment      *)
(* variable EXPR while the module is imported, and serves POST /calculate  *)
(* by streaming one JSON line per input whose computation succeeds.        *)
(*                                                                         *)
(* Floats are represented by the integers they equal (4 stands for 4.0);   *)
(* the inputs are chosen so that every result of the modelled functions is *)
(* again integral.                                                         *)
(***************************************************************************)
EXTENDS Integers, Sequences, FiniteSets, TLC

VARIABLES
    environ,      \* os.environ["EXPR"], or None when the variable is unset
    proc,         \* the process: "import", "resolved", "up", "crashed"
    expression,   \* module global `expression`
    fn,           \* module global `fn` (the name of the math attribute bound)
    error,        \* the exception that ended the import, or None
    nreq,         \* number of requests received so far
    conn,         \* the request in progress: "idle", "received", "streaming",
                  \*   "complete", "rejected", "aborted"
    body,         \* the JSON array of the request, as decoded
    values,       \* the validated List[Value] handed to calculate
    idx,          \* position of `for value in values` (next index to take)
    yielded,      \* results yielded by calculate_iter and not yet written
    status,       \* status code of the response (0: no response yet)
    media_type,   \* media type of the response
    written,      \* chunks handed to the response writer, in order
    stdout,       \* what print() has written since the request in progress
                  \*   was received
    calls         \* the arguments fn was called with during this request

vars == <<environ, proc, expression, fn, error, nreq, conn, body, values, idx,
          yielded, status, media_type, written, stdout, calls>>

startupVars == <<environ, proc, expression, fn, error>>

(***************************************************************************)
(* Bounds                                                                  *)
(***************************************************************************)
MaxLen == 3        \* longest request body
MaxRequests == 2   \* requests served by one process

None == "None"

(***************************************************************************)
(* The math module, as far as the program uses it.                         *)
(***************************************************************************)
\* Attributes of the math module that the model distinguishes.
MathAttrs == {"sqrt", "log2", "gamma", "fsum", "gcd", "pow", "hypot", "pi"}

\* Values of EXPR: every attribute, a name math does not have, and unset.
EnvValues == MathAttrs \cup {"cube", None}

\* The x values of request elements (floats with integral values).
XValues == {-1, 0, 4, 1024}

\* inspect.signature(fn).parameters, or the exception inspect.signature raises:
\* pi is a float (not callable), hypot carries no text signature.
Signature(f) ==
    CASE f \in {"sqrt", "log2", "gamma"} ->
            [exc |-> None, parameters |-> <<"POSITIONAL_ONLY">>]
      [] f = "fsum"  -> [exc |-> None, parameters |-> <<"POSITIONAL_ONLY">>]
      [] f = "gcd"   -> [exc |-> None, parameters |-> <<"VAR_POSITIONAL">>]
      [] f = "pow"   ->
            [exc |-> None, parameters |-> <<"POSITIONAL_ONLY", "POSITIONAL_ONLY">>]
      [] f = "hypot" -> [exc |-> "ValueError", parameters |-> <<>>]
      [] OTHER       -> [exc |-> "TypeError", parameters |-> <<>>]

RECURSIVE Factorial(_)
Factorial(n) == IF n <= 0 THEN 1 ELSE n * Factorial(n - 1)

RECURSIVE Pow2(_)
Pow2(e) == IF e <= 0 THEN 1 ELSE 2 * Pow2(e - 1)

Ok(v) == [exc |-> None, val |-> v]
Raises(e) == [exc |-> e, val |-> 0]

\* fn(value.x): the result, or the exception the call raises.
Apply(f, x) ==
    CASE f = "sqrt"  -> IF x < 0 THEN Raises("ValueError")
                        ELSE Ok(CHOOSE r \in 0..x : r * r = x)
      [] f = "log2"  -> IF x <= 0 THEN Raises("ValueError")
                        ELSE Ok(CHOOSE e \in 0..x : Pow2(e) = x)
      [] f = "gamma" -> IF x <= 0 THEN Raises("ValueError")
                        ELSE IF x > 171 THEN Raises("OverflowError")
                        ELSE Ok(Factorial(x - 1))
      [] f = "hypot" -> Ok(IF x < 0 THEN -x ELSE x)
      [] OTHER       -> Raises("TypeError")

Init ==
    /\ environ \in EnvValues
    /\ proc = "import"
    /\ expression = None
    /\ fn = None
    /\ error = None
    /\ nreq = 0
    /\ conn = "idle"
    /\ body = <<>>
    /\ values = <<>>
    /\ idx = 1
    /\ yielded = <<>>
    /\ status = 0
    /\ media_type = None
    /\ written = <<>>
    /\ stdout = <<>>
    /\ calls = <<>>

(***************************************************************************)
(* Module import: lines 17-25 run once, before the server accepts requests.*)
(***************************************************************************)
\* getattr(math, name): the exception it raises, or None when it returns.
GetAttr(name) ==
    IF name = None THEN "TypeError"
    ELSE IF name \notin MathAttrs THEN "AttributeError"
    ELSE None

\* expression = os.getenv("EXPR"); fn = getattr(math, expression)
Resolve ==
    /\ proc = "import"
    /\ expression' = environ
    /\ IF GetAttr(environ) # None
       THEN /\ proc' = "crashed"
            /\ error' = GetAttr(environ)
            /\ fn' = fn
       ELSE /\ proc' = "resolved"
            /\ error' = error
            /\ fn' = environ
    /\ UNCHANGED <<environ, nreq, conn, body, values, idx, yielded, status,
                   media_type, written, stdout, calls>>

\* The condition of the assert statement.
ArityOk(f) == Len(Signature(f).parameters) = 1

\* assert len(inspect.signature(fn).parameters) == 1, ...
CheckArity ==
    /\ proc = "resolved"
    /\ IF Signature(fn).exc # None
       THEN /\ proc' = "crashed"
            /\ error' = Signature(fn).exc
       ELSE IF ~ArityOk(fn)
       THEN /\ proc' = "crashed"
            /\ error' = "AssertionError"
       ELSE /\ proc' = "up"
            /\ error' = error
    /\ UNCHANGED <<environ, expression, fn, nreq, conn, body, values, idx,
                   yielded, status, media_type, written, stdout, calls>>

(***************************************************************************)
(* Request bodies and their validation against List[Value].                *)
(***************************************************************************)
\* Elements of a decoded request body: {"x": <number>} or {"x": null}.
Elements ==
    {[type |-> "number", num |-> n] : n \in XValues}
        \cup {[type |-> "null", num |-> 0]}

Bodies == UNION {[1..n -> Elements] : n \in 0..MaxLen}

\* Variant of ValidBody that validates the first element only.
ValidBodyFirstOnly(b) == IF Len(b) = 0 THEN TRUE ELSE b[1].type = "number"

\* class Value(BaseModel): x: float
ValidValue(e) == e.type = "number"

ValidBody(b) == \A i \in 1..Len(b) : ValidValue(b[i])

ParseBody(b) == [i \in 1..Len(b) |-> [x |-> b[i].num]]

(***************************************************************************)
(* Python dicts (insertion-ordered) and json.dumps.                        *)
(***************************************************************************)
Item(k, v) == [k |-> k, v |-> v]

HasKey(d, k) == \E i \in 1..Len(d) : d[i].k = k

\* d[k] for a key the dict has.
Get(d, k) == d[CHOOSE i \in 1..Len(d) : d[i].k = k].v

\* {**d, k: v}: an existing key keeps its position and takes the new value.
DictSet(d, k, v) ==
    IF HasKey(d, k)
    THEN [i \in 1..Len(d) |-> IF d[i].k = k THEN Item(k, v) ELSE d[i]]
    ELSE Append(d, Item(k, v))

\* value.dict()
ValueDict(value) == <<Item("x", value.x)>>

\* Variant of ResultDict in which the result also lands in the echoed field.
ResultDictClobber(value, name, result) ==
    <<Item("x", result), Item(name, result)>>

\* {**value.dict(), expression: fn(value.x)}, given the result of the call.
ResultDict(value, name, result) == DictSet(ValueDict(value), name, result)

Punct(s) == [t |-> "punct", s |-> s, n |-> 0]
Str(s) == [t |-> "string", s |-> s, n |-> 0]
Num(n) == [t |-> "number", s |-> "", n |-> n]

RECURSIVE DumpItems(_, _, _)
DumpItems(d, item_sep, key_sep) ==
    IF d = <<>> THEN <<>>
    ELSE <<Str(d[1].k)>> \o key_sep \o <<Num(d[1].v)>>
         \o (IF Len(d) > 1 THEN item_sep ELSE <<>>)
         \o DumpItems(Tail(d), item_sep, key_sep)

\* json.dumps(d, separators=(item_sep, key_sep)), as a sequence of tokens.
JsonDumps(d, item_sep, key_sep) ==
    <<Punct("{")>> \o DumpItems(d, item_sep, key_sep) \o <<Punct("}")>>

\* (json.dumps(result, separators=(",", ":")) + "\n").encode("utf8")
Chunk(result) ==
    [bytes |-> JsonDumps(result, <<Punct(",")>>, <<Punct(":")>>)
                   \o <<Punct("\n")>>]

(***************************************************************************)
(* POST /calculate                                                         *)
(***************************************************************************)
HTTP_200_OK == 200
HTTP_422_UNPROCESSABLE_ENTITY == 422

\* A request arrives; only a process whose import completed listens.
Receive ==
    /\ proc = "up"
    /\ conn = "idle"
    /\ nreq < MaxRequests
    /\ \E b \in Bodies : body' = b
    /\ nreq' = nreq + 1
    /\ conn' = "received"
    /\ stdout' = <<>>
    /\ UNCHANGED <<startupVars, values, idx, yielded, status, media_type,
                   written, calls>>

\* The body does not validate as List[Value]: the framework answers 422 and
\* calculate is not called.
Reject ==
    /\ conn = "received"
    /\ ~ValidBody(body)
    /\ status' = HTTP_422_UNPROCESSABLE_ENTITY
    /\ conn' = "rejected"
    /\ UNCHANGED <<startupVars, nreq, body, values, idx, yielded, media_type,
                   written, stdout, calls>>

\* calculate(values): builds the StreamingResponse around the generator and
\* returns; nothing of calculate_iter has run yet.
Calculate ==
    /\ conn = "received"
    /\ ValidBody(body)
    /\ values' = ParseBody(body)
    /\ idx' = 1
    /\ yielded' = <<>>
    /\ status' = HTTP_200_OK
    /\ media_type' = None
    /\ conn' = "streaming"
    /\ UNCHANGED <<startupVars, nreq, body, written, stdout, calls>>

\* Variant of CanResume: the generator runs ahead of the writer.
CanResumeAlways == TRUE

\* The response writer asks the generator for its next item only after it
\* has written the previous one.
CanResume == yielded = <<>>

\* One iteration of `for value in values` whose call returns: the generator
\* suspends at yield with the result.
Yield ==
    /\ conn = "streaming"
    /\ CanResume
    /\ idx <= Len(values)
    /\ Apply(fn, values[idx].x).exc = None
    /\ yielded' = Append(yielded,
                         ResultDict(values[idx], expression,
                                    Apply(fn, values[idx].x).val))
    /\ calls' = Append(calls, values[idx].x)
    /\ idx' = idx + 1
    /\ UNCHANGED <<startupVars, nreq, conn, body, values, status, media_type,
                   written, stdout>>

\* print(f"Value is not a valid input for {expression}(x)", value.x)
Diagnostic(name, x) == [expression |-> name, x |-> x]

\* Variant of Skip that lets the ValueError end the body.
SkipAborting ==
    /\ conn = "streaming"
    /\ yielded = <<>>
    /\ idx <= Len(values)
    /\ Apply(fn, values[idx].x).exc = "ValueError"
    /\ calls' = Append(calls, values[idx].x)
    /\ conn' = "aborted"
    /\ UNCHANGED <<startupVars, nreq, body, values, idx, yielded, status,
                   media_type, written, stdout>>

\* Variant of Skip that prints nothing.
SkipSilent ==
    /\ conn = "streaming"
    /\ yielded = <<>>
    /\ idx <= Len(values)
    /\ Apply(fn, values[idx].x).exc = "ValueError"
    /\ calls' = Append(calls, values[idx].x)
    /\ idx' = idx + 1
    /\ UNCHANGED <<startupVars, nreq, conn, body, values, yielded, status,
                   media_type, written, stdout>>

\* One iteration whose call raises ValueError: print and go on.
Skip ==
    /\ conn = "streaming"
    /\ CanResume
    /\ idx <= Len(values)
    /\ Apply(fn, values[idx].x).exc = "ValueError"
    /\ stdout' = Append(stdout, Diagnostic(expression, values[idx].x))
    /\ calls' = Append(calls, values[idx].x)
    /\ idx' = idx + 1
    /\ UNCHANGED <<startupVars, nreq, conn, body, values, yielded, status,
                   media_type, written>>

\* Variant of Raise in which every exception is caught like ValueError.
RaiseSwallowed ==
    /\ conn = "streaming"
    /\ yielded = <<>>
    /\ idx <= Len(values)
    /\ Apply(fn, values[idx].x).exc \notin {None, "ValueError"}
    /\ calls' = Append(calls, values[idx].x)
    /\ idx' = idx + 1
    /\ UNCHANGED <<startupVars, nreq, conn, body, values, yielded, status,
                   media_type, written, stdout>>

\* One iteration whose call raises anything else: the exception leaves the
\* generator and ends the body; the response has already been started.
Raise ==
    /\ conn = "streaming"
    /\ CanResume
    /\ idx <= Len(values)
    /\ Apply(fn, values[idx].x).exc \notin {None, "ValueError"}
    /\ calls' = Append(calls, values[idx].x)
    /\ conn' = "aborted"
    /\ UNCHANGED <<startupVars, nreq, body, values, idx, yielded, status,
                   media_type, written, stdout>>

\* The for loop ends: the generator is exhausted and the body is complete.
Exhaust ==
    /\ conn = "streaming"
    /\ CanResume
    /\ idx > Len(values)
    /\ conn' = "complete"
    /\ UNCHANGED <<startupVars, nreq, body, values, idx, yielded, status,
                   media_type, written, stdout, calls>>

\* Variant of Write that puts the new chunk in front of the earlier ones.
WritePrepend ==
    /\ conn = "streaming"
    /\ yielded # <<>>
    /\ written' = <<Chunk(Head(yielded))>> \o written
    /\ yielded' = Tail(yielded)
    /\ UNCHANGED <<startupVars, nreq, conn, body, values, idx, status,
                   media_type, stdout, calls>>

\* The generator expression of calculate encodes the yielded result and the
\* response writes it.
Write ==
    /\ conn = "streaming"
    /\ yielded # <<>>
    /\ written' = Append(written, Chunk(Head(yielded)))
    /\ yielded' = Tail(yielded)
    /\ UNCHANGED <<startupVars, nreq, conn, body, values, idx, status,
                   media_type, stdout, calls>>

\* The exchange is over: nothing of the request outlives it, and the process
\* waits for the next one.
Close ==
    /\ conn \in {"complete", "rejected", "aborted"}
    /\ conn' = "idle"
    /\ body' = <<>>
    /\ values' = <<>>
    /\ idx' = 1
    /\ yielded' = <<>>
    /\ status' = 0
    /\ media_type' = None
    /\ written' = <<>>
    /\ calls' = <<>>
    /\ UNCHANGED <<startupVars, nreq, stdout>>

Next ==
    \/ Resolve
    \/ CheckArity
    \/ Receive
    \/ Reject
    \/ Calculate
    \/ Yield
    \/ Skip
    \/ Raise
    \/ Exhaust
    \/ Write
    \/ Close

Spec == Init /\ [][Next]_vars

(***************************************************************************)
(* Vocabulary of the properties.                                           *)
(***************************************************************************)
\* The functions of math that take exactly one argument.
UnaryFunctions == {"sqrt", "log2", "gamma", "fsum"}

InDomain(x) == Apply(fn, x).exc = None
DomainError(x) == Apply(fn, x).exc = "ValueError"
OtherError(x) == ~InDomain(x) /\ ~DomainError(x)

Prefix(s, n) == SubSeq(s, 1, n)
RemoveAt(s, i) == SubSeq(s, 1, i - 1) \o SubSeq(s, i + 1, Len(s))

\* The inputs of vals that precede its first input raising a non-domain error.
BeforeOtherError(vals) ==
    LET bad == {i \in 1..Len(vals) : OtherError(vals[i].x)}
    IN  IF bad = {} THEN vals
        ELSE Prefix(vals, (CHOOSE i \in bad : \A j \in bad : i <= j) - 1)

InDomainOf(vals) == SelectSeq(vals, LAMBDA v : InDomain(v.x))
OutOfDomainOf(vals) == SelectSeq(vals, LAMBDA v : DomainError(v.x))

\* The output line of one in-domain input.
LineOf(v) ==
    Chunk(<<Item("x", v.x), Item(expression, Apply(fn, v.x).val)>>)

\* One line per in-domain input of vals, in the order of vals.
LinesOf(vals) ==
    [i \in 1..Len(InDomainOf(vals)) |-> LineOf(InDomainOf(vals)[i])]

InRequest == conn \in {"streaming", "complete", "aborted"}

(***************************************************************************)
(* C1                                                                      *)
(***************************************************************************)
\* C1: when a request's list has been processed without a non-domain error,
\* the lines written are exactly those of the inputs whose x is in the
\* function's domain, one line each, in the order of the inputs.
C1_OutputIsInDomainSubsequence ==
    conn = "complete" => written = LinesOf(values)

C1_Witness ==
    /\ conn = "complete"
    /\ Len(values) = 3
    /\ InDomain(values[1].x) /\ DomainError(values[2].x) /\ InDomain(values[3].x)
    /\ values[1].x # values[3].x
    /\ Len(written) = 2

(***************************************************************************)
(* C2                                                                      *)
(***************************************************************************)
\* C2: an input whose call raises ValueError yields no output record and
\* does not end the batch: the body is only ever cut short at an input that
\* raises a non-domain error, and the lines written are those the request
\* would have produced with the offending input absent from the list.
C2_DomainErrorIsSkipped ==
    /\ conn = "aborted" => idx <= Len(values) /\ OtherError(values[idx].x)
    /\ conn \in {"complete", "aborted"} =>
           \A i \in 1..Len(values) :
               DomainError(values[i].x) =>
                   written = LinesOf(BeforeOtherError(RemoveAt(values, i)))

C2_Witness ==
    /\ conn = "complete"
    /\ Len(values) = 3
    /\ DomainError(values[1].x) /\ InDomain(values[2].x) /\ InDomain(values[3].x)
    /\ written = <<LineOf(values[2]), LineOf(values[3])>>

(***************************************************************************)
(* C3                                                                      *)
(***************************************************************************)
\* C3: startup succeeds if and only if EXPR names a function of math that
\* takes exactly one argument.
C3_StartupIffUnary ==
    /\ proc = "up" => environ \in UnaryFunctions
    /\ proc = "crashed" => environ \notin UnaryFunctions

(***************************************************************************)
(* C4                                                                      *)
(***************************************************************************)
\* C4: no request is accepted unless the configuration check has completed
\* successfully; with EXPR unset, unknown or naming a function of wrong
\* arity the process never serves a request.
C4_NoRequestBeforeValidConfig ==
    (nreq > 0 \/ conn # "idle") =>
        /\ proc = "up"
        /\ environ \in UnaryFunctions
        /\ expression = environ /\ fn = environ

(***************************************************************************)
(* C5                                                                      *)
(***************************************************************************)
\* C5: an emitted record echoes the x of the input it was computed from
\* unchanged, and carries exactly one more field, keyed by the configured
\* name and holding the function's result for that x.
C5_RecordEchoesInput ==
    (conn = "streaming" /\ yielded # <<>>) =>
        LET r == Head(yielded)
            v == values[idx - 1]
        IN  /\ Len(r) = 2
            /\ {r[i].k : i \in 1..Len(r)} = {"x", expression}
            /\ Get(r, "x") = v.x
            /\ Get(r, expression) = Apply(fn, v.x).val

C5_Witness ==
    /\ conn = "streaming"
    /\ yielded # <<>>
    /\ Get(Head(yielded), "x") = 4
    /\ Get(Head(yielded), expression) = 2

(***************************************************************************)
(* C6                                                                      *)
(***************************************************************************)
\* C6 as stated: a non-domain error is not caught, no record is emitted for
\* that input or a later one, and the request results in a server error
\* response.
C6_ServerErrorResponse ==
    /\ InRequest /\ conn # "aborted" =>
           \A i \in 1..(idx - 1) : ~OtherError(values[i].x)
    /\ conn = "aborted" =>
           /\ idx <= Len(values) /\ OtherError(values[idx].x)
           /\ yielded = <<>>
           /\ written = LinesOf(Prefix(values, idx - 1))
           /\ status \in 500..599

\* C6 as amended: a non-domain error is not caught, no record is emitted for
\* that input or a later one and the body ends there; the response was
\* started with status 200 before the first call, and that status stands.
C6_ErrorEndsStartedResponse ==
    /\ InRequest /\ conn # "aborted" =>
           \A i \in 1..(idx - 1) : ~OtherError(values[i].x)
    /\ conn = "aborted" =>
           /\ idx <= Len(values) /\ OtherError(values[idx].x)
           /\ yielded = <<>>
           /\ written = LinesOf(Prefix(values, idx - 1))
           /\ status = HTTP_200_OK

C6_Witness ==
    /\ conn = "aborted"
    /\ Len(values) = 3
    /\ idx = 2
    /\ Len(written) = 1
    /\ InDomain(values[3].x)

CompactLine(c) ==
    LET b == c.bytes
        n == Len(b)
    IN  /\ n >= 3
        /\ b[1] = Punct("{") /\ b[n - 1] = Punct("}") /\ b[n] = Punct("\n")
        /\ (n - 3) % 4 = 3
        /\ \A i \in 2..(n - 2) :
               CASE (i - 2) % 4 = 0 -> b[i].t = "string"
                 [] (i - 2) % 4 = 1 -> b[i] = Punct(":")
                 [] (i - 2) % 4 = 2 -> b[i].t = "number"
                 [] OTHER           -> b[i] = Punct(",")

\* C8: every successful response is HTTP 200 with the content type of
\* newline-delimited JSON, and its body is one compact JSON object and a
\* newline per emitted record and nothing else.
C8_NdjsonResponse ==
    conn = "complete" =>
        /\ status = 200
        /\ media_type = "application/x-ndjson"
        /\ Len(written) = Len(InDomainOf(values))
        /\ \A i \in 1..Len(written) : CompactLine(written[i])

(***************************************************************************)
(* C9                                                                      *)
(***************************************************************************)
\* C9: output is produced lazily: fn is called on the inputs in order, at
\* most one result is ever waiting to be written, and the lines written,
\* with the one waiting, are exactly those of the in-domain inputs among
\* the inputs fn has been called on so far.
C9_LazyIncrementalOutput ==
    InRequest =>
        /\ Len(yielded) <= 1
        /\ calls = [i \in 1..Len(calls) |-> values[i].x]
        /\ written \o [i \in 1..Len(yielded) |-> Chunk(yielded[i])]
               = LinesOf(Prefix(values, Len(calls)))
        /\ yielded # <<>> => InDomain(values[Len(calls)].x)

C9_Witness ==
    /\ conn = "streaming"
    /\ Len(values) = 3
    /\ Len(calls) = 1
    /\ written = <<LineOf(values[1])>>
    /\ yielded = <<>>
    /\ InDomain(values[2].x)

(***************************************************************************)
(* C10                                                                     *)
(***************************************************************************)
\* C10: during a request there is exactly one diagnostic per input skipped
\* for a domain error, carrying that input's x, in input order, and none
\* for any other input.
C10_OneDiagnosticPerSkippedInput ==
    InRequest =>
        stdout = [i \in 1..Len(OutOfDomainOf(Prefix(values, Len(calls)))) |->
                     [expression |-> expression,
                      x |-> OutOfDomainOf(Prefix(values, Len(calls)))[i].x]]

C10_Witness ==
    /\ conn = "complete"
    /\ Len(values) = 3
    /\ Len(stdout) = 2
    /\ stdout[1].x # stdout[2].x
    /\ Len(written) = 1
====
